---- MODULE Spec2Model ----
(***************************************************************************)
(* Model of src/creds.rs: the credential store `Creds` (an insertion-      *)
(* ordered map from username to password) and its colon-delimited text     *)
(* codec `write` / `read`.                                                 *)
(*                                                                         *)
(* A string is a sequence of one-character strings, so that searching,     *)
(* splitting and concatenating are computed character by character.        *)
(***************************************************************************)
EXTENDS Integers, Sequences, FiniteSets, TLC

VARIABLES
    pc,      \* where the calling program is: "idle", "write", "wrote", "read", "readDone", "panicked"
    map,     \* Creds.map of the store the caller holds: sequence of [username, password]
    call,    \* the most recent call on the store: [name, username, password]
    ret,     \* what the most recent lookup returned
    last,    \* history: for each username, the most recent insert since the last new/clear
    i,       \* write: position of the `for` loop in self.map
    out,     \* write: the bytes the writer has received
    wres,    \* write: its io::Result ("pending" while running)
    input,   \* read: the bytes the reader was created over
    rest,    \* read: the bytes of the reader not yet consumed
    lines,   \* read: the lines reader.lines() has yielded so far
    creds,   \* read: the store `creds` under construction
    rres     \* read: its io::Result ("pending" while running)

vars == <<pc, map, call, ret, last, i, out, wres, input, rest, lines, creds, rres>>

storeVars == <<map, last>>
writeVars == <<i, out, wres>>
readVars  == <<input, rest, lines, creds, rres>>

----------------------------------------------------------------------------
(* Bounds and input sets *)

\* the largest number of entries a store is grown to by insert
MaxEntries == 2

\* the longest byte stream handed to read as an arbitrary input
MaxStream == 7

COLON == ":"
LF == "\n"
CR == "\r"

\* the alphabet: an ordinary character, the separator, and the two line-end characters
Chars == {"a", COLON, LF, CR}

\* usernames given to insert / get / index: empty, ordinary, and each special character
Usernames == { <<>>, <<"a">>, <<COLON>>, <<LF>>, <<CR>> }

\* passwords given to insert: empty, with a colon, with a newline,
\* with a carriage return at the end and with one not at the end
Passwords == { <<>>, <<"a", COLON>>, <<LF>>, <<CR>>, <<CR, "a">> }

\* the byte streams given to read as arbitrary inputs
Streams == UNION { [1..n -> Chars] : n \in 0..MaxStream }

----------------------------------------------------------------------------
(* Values *)

Unit    == [tag |-> "unit", val |-> <<>>]
None    == [tag |-> "None", val |-> <<>>]
Some(s) == [tag |-> "Some", val |-> s]
Str(s)  == [tag |-> "str", val |-> s]
Panic   == [tag |-> "panic", val |-> <<>>]

Call(n, u, p) == [name |-> n, username |-> u, password |-> p]

----------------------------------------------------------------------------
(* str and IndexMap operations used by creds.rs *)

\* str::contains(c)
Contains(s, c) == \E k \in 1..Len(s) : s[k] = c

\* str::find(c): the index of the first occurrence of c in s, 0 when there is none
RECURSIVE FindFrom(_, _, _)
FindFrom(s, c, k) ==
    IF k > Len(s) THEN 0
    ELSE IF s[k] = c THEN k
    ELSE FindFrom(s, c, k + 1)

Find(s, c) == FindFrom(s, c, 1)

\* IndexMap::get_index_of: the position of key u, 0 when absent
RECURSIVE IndexFrom(_, _, _)
IndexFrom(m, u, k) ==
    IF k > Len(m) THEN 0
    ELSE IF m[k].username = u THEN k
    ELSE IndexFrom(m, u, k + 1)

GetIndexOf(m, u) == IndexFrom(m, u, 1)

\* IndexMap::new
MapNew == <<>>

\* faulty variant of insert: an existing key keeps its old value
MapInsertKeepFirst(m, u, p) ==
    IF GetIndexOf(m, u) = 0
    THEN Append(m, [username |-> u, password |-> p])
    ELSE m

\* faulty variant of insert: an existing key is removed and pushed at the end
MapInsertMoveToEnd(m, u, p) ==
    Append(SelectSeq(m, LAMBDA e : e.username # u), [username |-> u, password |-> p])

\* IndexMap::insert: replace the value in place when the key exists, else push at the end
MapInsert(m, u, p) ==
    LET k == GetIndexOf(m, u) IN
    IF k = 0
    THEN Append(m, [username |-> u, password |-> p])
    ELSE [m EXCEPT ![k].password = p]

\* Creds::get
Get(m, u) ==
    LET k == GetIndexOf(m, u) IN
    IF k = 0 THEN None ELSE Some(m[k].password)

----------------------------------------------------------------------------
(* Creds::new, clear, insert, get, index *)

NoInsert == [u \in Usernames |-> None]

New ==
    /\ pc = "idle"
    /\ map' = MapNew
    /\ last' = NoInsert
    /\ call' = Call("new", <<>>, <<>>)
    /\ ret' = Unit
    /\ UNCHANGED <<pc, writeVars, readVars>>

\* faulty variant of clear: the entries stay
ClearKeeps(m) == m

\* IndexMap::clear
MapClear(m) == <<>>

Clear ==
    /\ pc = "idle"
    /\ map' = MapClear(map)
    /\ last' = NoInsert
    /\ call' = Call("clear", <<>>, <<>>)
    /\ ret' = Unit
    /\ UNCHANGED <<pc, writeVars, readVars>>

Insert ==
    /\ pc = "idle"
    /\ \E u \in Usernames, p \in Passwords :
        /\ GetIndexOf(map, u) # 0 \/ Len(map) < MaxEntries
        /\ map' = MapInsert(map, u, p)
        /\ last' = [last EXCEPT ![u] = Some(p)]
        /\ call' = Call("insert", u, p)
    /\ ret' = Unit
    /\ UNCHANGED <<pc, writeVars, readVars>>

GetCall ==
    /\ pc = "idle"
    /\ \E u \in Usernames :
        /\ call' = Call("get", u, <<>>)
        /\ ret' = Get(map, u)
    /\ UNCHANGED <<pc, storeVars, writeVars, readVars>>

\* faulty variant of index: an empty string for an absent username
IndexDefault(m, u) ==
    IF Get(m, u).tag = "Some" THEN Str(Get(m, u).val) ELSE Str(<<>>)

\* Index::index: the match on self.get(username)
IndexResult(m, u) ==
    IF Get(m, u).tag = "Some" THEN Str(Get(m, u).val) ELSE Panic

IndexCall ==
    /\ pc = "idle"
    /\ \E u \in Usernames :
        /\ call' = Call("index", u, <<>>)
        /\ ret' = IndexResult(map, u)
    /\ pc' = IF ret'.tag = "panic" THEN "panicked" ELSE "idle"
    /\ UNCHANGED <<storeVars, writeVars, readVars>>

----------------------------------------------------------------------------
(* Creds::write and write_to_file *)

\* faulty variant of the validation: the password is not looked at
IllegalIgnoresPassword(e) == Contains(e.username, COLON) \/ Contains(e.username, LF)

\* the validation at the top of the loop body
Illegal(e) ==
    \/ Contains(e.username, COLON)
    \/ Contains(e.username, LF)
    \/ Contains(e.password, LF)

\* the bytes of writeln!(writer, "{}:{}", username, password)
FormatLine(e) == e.username \o <<COLON>> \o e.password \o <<LF>>

\* write_to_file: File::create fails, and `?` returns the error before write is called
CreateFail ==
    /\ pc = "idle"
    /\ pc' = "wrote"
    /\ call' = Call("write_to_file", <<>>, <<>>)
    /\ ret' = Unit
    /\ i' = 0
    /\ out' = <<>>
    /\ wres' = "IoError"
    /\ UNCHANGED <<storeVars, readVars>>

\* write is entered, directly or from write_to_file on the created (empty) file
WriteStart ==
    /\ pc = "idle"
    /\ pc' = "write"
    /\ call' = Call("write", <<>>, <<>>)
    /\ ret' = Unit
    /\ i' = 1
    /\ out' = <<>>
    /\ wres' = "pending"
    /\ UNCHANGED <<storeVars, readVars>>

\* faulty variant of the loop body: the line is written before it is validated
StepWritesBeforeChecking(o, e) ==
    [out |-> o \o FormatLine(e), err |-> Illegal(e)]

\* what one pass of the loop body does on a writer that accepts the line
StepOf(o, e) ==
    IF Illegal(e)
    THEN [out |-> o, err |-> TRUE]
    ELSE [out |-> o \o FormatLine(e), err |-> FALSE]

\* one pass of the loop body
WriteStep ==
    /\ pc = "write"
    /\ i <= Len(map)
    /\ LET r == StepOf(out, map[i]) IN
        /\ out' = r.out
        /\ IF r.err
           THEN /\ wres' = "InvalidData"
                /\ pc' = "wrote"
                /\ i' = i
           ELSE /\ wres' = wres
                /\ pc' = pc
                /\ i' = i + 1
    /\ UNCHANGED <<storeVars, call, ret, readVars>>

\* one pass of the loop body on a writer that fails: writeln! has passed on some
\* proper prefix of the line when the error comes back, and `?` returns it
WriteIoFail ==
    /\ pc = "write"
    /\ i <= Len(map)
    /\ ~Illegal(map[i])
    /\ \E k \in 0..(Len(FormatLine(map[i])) - 1) :
        out' = out \o SubSeq(FormatLine(map[i]), 1, k)
    /\ wres' = "IoError"
    /\ pc' = "wrote"
    /\ UNCHANGED <<storeVars, call, ret, i, readVars>>

\* the loop is exhausted: Ok(())
WriteEnd ==
    /\ pc = "write"
    /\ i > Len(map)
    /\ wres' = "Ok"
    /\ pc' = "wrote"
    /\ UNCHANGED <<storeVars, call, ret, i, out, readVars>>

----------------------------------------------------------------------------
(* Creds::read and read_from_file *)

\* faulty variant of read_line: the whole stream is taken as one line
ReadLineToEnd(s) == [buf |-> s, rest |-> <<>>]

\* BufRead::read_line: the bytes up to and including the first newline, or all of them
ReadLine(s) ==
    LET n == Find(s, LF) IN
    IF n = 0
    THEN [buf |-> s, rest |-> <<>>]
    ELSE [buf |-> SubSeq(s, 1, n), rest |-> SubSeq(s, n + 1, Len(s))]

\* Lines::next: a trailing "\n" is removed, and then a "\r" in front of it
StripLineEnd(buf) ==
    IF Len(buf) > 0 /\ buf[Len(buf)] = LF
    THEN LET b == SubSeq(buf, 1, Len(buf) - 1) IN
         IF Len(b) > 0 /\ b[Len(b)] = CR
         THEN SubSeq(b, 1, Len(b) - 1)
         ELSE b
    ELSE buf

\* faulty variant of split_once: the split is at the last ':' (rsplit_once)
RECURSIVE FindLastFrom(_, _, _)
FindLastFrom(s, c, k) ==
    IF k < 1 THEN 0
    ELSE IF s[k] = c THEN k
    ELSE FindLastFrom(s, c, k - 1)

SplitAtLast(l) ==
    LET k == FindLastFrom(l, COLON, Len(l)) IN
    IF k = 0 THEN None
    ELSE Some([username |-> SubSeq(l, 1, k - 1), password |-> SubSeq(l, k + 1, Len(l))])

\* str::split_once(':')
SplitOnce(l) ==
    LET k == Find(l, COLON) IN
    IF k = 0 THEN None
    ELSE Some([username |-> SubSeq(l, 1, k - 1), password |-> SubSeq(l, k + 1, Len(l))])

\* faulty variant of the loop body: a line without ':' is inserted as a username
LineUnsplitAsUsername(c, l) ==
    IF SplitOnce(l).tag = "Some"
    THEN MapInsert(c, SplitOnce(l).val.username, SplitOnce(l).val.password)
    ELSE MapInsert(c, l, <<>>)

\* the loop body: insert the pair when the line splits, skip the line otherwise
LineInto(c, l) ==
    IF SplitOnce(l).tag = "Some"
    THEN MapInsert(c, SplitOnce(l).val.username, SplitOnce(l).val.password)
    ELSE c

\* read_from_file: File::open fails, and `?` returns the error before read is called
OpenFail ==
    /\ pc = "wrote"
    /\ pc' = "readDone"
    /\ call' = Call("read_from_file", <<>>, <<>>)
    /\ input' = out
    /\ rest' = out
    /\ lines' = <<>>
    /\ creds' = MapNew
    /\ rres' = "IoError"
    /\ UNCHANGED <<storeVars, ret, writeVars>>

\* read is entered over the bytes write left behind (directly, or from read_from_file)
ReadStart ==
    /\ pc = "wrote"
    /\ pc' = "read"
    /\ call' = Call("read", <<>>, <<>>)
    /\ input' = out
    /\ rest' = out
    /\ lines' = <<>>
    /\ creds' = MapNew
    /\ rres' = "pending"
    /\ UNCHANGED <<storeVars, ret, writeVars>>

\* one pass of the loop: lines() yields a line
ReadStep ==
    /\ pc = "read"
    /\ rest # <<>>
    /\ LET r == ReadLine(rest)
           l == StripLineEnd(r.buf)
       IN /\ rest' = r.rest
          /\ lines' = Append(lines, l)
          /\ creds' = LineInto(creds, l)
    /\ UNCHANGED <<pc, storeVars, call, ret, writeVars, input, rres>>

\* lines() yields an Err: `line_result?` returns it
ReadIoFail ==
    /\ pc = "read"
    /\ rres' = "IoError"
    /\ pc' = "readDone"
    /\ UNCHANGED <<storeVars, call, ret, writeVars, input, rest, lines, creds>>

\* lines() is exhausted: Ok(creds)
ReadEnd ==
    /\ pc = "read"
    /\ rest = <<>>
    /\ rres' = "Ok"
    /\ pc' = "readDone"
    /\ UNCHANGED <<storeVars, call, ret, writeVars, input, rest, lines, creds>>

\* the caller takes the store read returned and goes on with it
Adopt ==
    /\ pc = "readDone"
    /\ rres = "Ok"
    /\ map' = creds
    /\ pc' = "idle"
    /\ UNCHANGED <<last, call, ret, writeVars, readVars>>

----------------------------------------------------------------------------
(* Specifications *)

\* a program that creates a store, changes and queries it, writes it and reads it back
Init ==
    /\ pc = "idle"
    /\ map = MapNew
    /\ call = Call("new", <<>>, <<>>)
    /\ ret = Unit
    /\ last = NoInsert
    /\ i = 0
    /\ out = <<>>
    /\ wres = "pending"
    /\ input = <<>>
    /\ rest = <<>>
    /\ lines = <<>>
    /\ creds = MapNew
    /\ rres = "pending"

Next ==
    \/ New
    \/ Clear
    \/ Insert
    \/ GetCall
    \/ IndexCall
    \/ CreateFail
    \/ WriteStart
    \/ WriteStep
    \/ WriteIoFail
    \/ WriteEnd
    \/ OpenFail
    \/ ReadStart
    \/ ReadStep
    \/ ReadIoFail
    \/ ReadEnd

Spec == Init /\ [][Next]_vars

\* a program that reads an arbitrary byte stream and writes the store it got
InitRead ==
    /\ pc = "read"
    /\ map = MapNew
    /\ call = Call("read", <<>>, <<>>)
    /\ ret = Unit
    /\ last = NoInsert
    /\ i = 0
    /\ out = <<>>
    /\ wres = "pending"
    /\ input \in Streams
    /\ rest = input
    /\ lines = <<>>
    /\ creds = MapNew
    /\ rres = "pending"

NextRead ==
    \/ ReadStep
    \/ ReadIoFail
    \/ ReadEnd
    \/ Adopt
    \/ WriteStart
    \/ WriteStep
    \/ WriteIoFail
    \/ WriteEnd

SpecRead == InitRead /\ [][NextRead]_vars

----------------------------------------------------------------------------
(* Vocabulary of the properties, stated without the operators of the model *)

\* the entry meets the documented constraint: no ':' and no newline in the
\* username, no newline in the password
Writable(e) ==
    /\ \A k \in 1..Len(e.username) : e.username[k] \notin {":", "\n"}
    /\ \A k \in 1..Len(e.password) : e.password[k] # "\n"

AllWritable(m) == \A n \in 1..Len(m) : Writable(m[n])

\* no username occurs twice
Unique(m) == \A a, b \in 1..Len(m) : m[a].username = m[b].username => a = b

Stored(m, u) == \E n \in 1..Len(m) : m[n].username = u

\* the lines "<username>:<password>\n" of the first n entries, in order
RECURSIVE LinesUpTo(_, _)
LinesUpTo(m, n) ==
    IF n = 0 THEN <<>>
    ELSE LinesUpTo(m, n - 1) \o m[n].username \o <<":">> \o m[n].password \o <<"\n">>

\* the position of the first entry that breaks the constraint
FirstBad(m) ==
    CHOOSE n \in 1..Len(m) : ~Writable(m[n]) /\ \A j \in 1..(n - 1) : Writable(m[j])

HasColon(l) == \E k \in 1..Len(l) : l[k] = ":"

FirstColon(l) == CHOOSE k \in 1..Len(l) : l[k] = ":" /\ \A j \in 1..(k - 1) : l[j] # ":"

Before(l) == SubSeq(l, 1, FirstColon(l) - 1)

After(l) == SubSeq(l, FirstColon(l) + 1, Len(l))

\* the yielded lines that split to username u
LinesOf(u) == { j \in 1..Len(lines) : HasColon(lines[j]) /\ Before(lines[j]) = u }

Lowest(S) == CHOOSE x \in S : \A y \in S : x <= y

Highest(S) == CHOOSE x \in S : \A y \in S : x >= y

----------------------------------------------------------------------------
(* Properties *)

\* C1: every store built by insert whose entries all meet the colon/newline
\* constraint is written successfully by a writer that does not fail, and
\* reading the written bytes back returns the same entries in the same order.
C1_RoundTrip ==
    /\ (wres \notin {"pending", "IoError"} /\ AllWritable(map)) => wres = "Ok"
    /\ (rres = "Ok" /\ wres = "Ok" /\ AllWritable(map)) => creds = map

\* C2: no store ever holds a username twice, and an insert of a username the
\* store already holds keeps the number of entries and every username's
\* position, and changes only that username's password, to the new one.
C2_OverwriteInPlace ==
    /\ [](Unique(map) /\ Unique(creds))
    /\ [][(call'.name = "insert" /\ Stored(map, call'.username)) =>
            /\ Len(map') = Len(map)
            /\ \A n \in 1..Len(map) :
                /\ map'[n].username = map[n].username
                /\ map'[n].password =
                     IF map[n].username = call'.username
                     THEN call'.password
                     ELSE map[n].password]_vars

C2_Witness ==
    /\ call.name = "insert"
    /\ Len(map) = 2
    /\ map[1] = [username |-> call.username, password |-> call.password]
    /\ call.password = <<CR, "a">>

\* C3: when the writer does not fail, write returns InvalidData exactly when
\* some entry has ':' or a newline in its username or a newline in its
\* password, and Ok otherwise.
C3_WriteValidation ==
    (wres \notin {"pending", "IoError"}) =>
        /\ wres \in {"Ok", "InvalidData"}
        /\ wres = "InvalidData" <=> ~AllWritable(map)
        /\ wres = "Ok" <=> AllWritable(map)

C3_Witness ==
    /\ wres = "InvalidData"
    /\ Len(map) = 2
    /\ map[1].username = <<"a">>
    /\ map[2].username = <<COLON>>

\* C4: after read has taken a line that contains ':', the store under
\* construction maps the text before the line's first ':' to all the text
\* after it, further ':' included; either part may be empty.
C4_FirstColonSplit ==
    (Len(lines) > 0 /\ HasColon(lines[Len(lines)])) =>
        \E n \in 1..Len(creds) :
            /\ creds[n].username = Before(lines[Len(lines)])
            /\ creds[n].password = After(lines[Len(lines)])

C4_Witness ==
    /\ Len(lines) = 2
    /\ lines[1] = <<COLON>>
    /\ lines[2] = <<"a", COLON, "a", COLON, "a">>
    /\ creds = << [username |-> <<>>, password |-> <<>>],
                  [username |-> <<"a">>, password |-> <<"a", COLON, "a">>] >>

\* C5: read fails only on an I/O failure of the stream, and the store it
\* returns holds exactly the usernames of the lines that contain ':', each
\* with the password of one of its lines; a line without ':' adds nothing.
C5_MalformedLineTolerance ==
    /\ rres \in {"pending", "Ok", "IoError"}
    /\ rres = "Ok" =>
        /\ \A n \in 1..Len(creds) :
            \E j \in 1..Len(lines) :
                /\ HasColon(lines[j])
                /\ creds[n].username = Before(lines[j])
                /\ creds[n].password = After(lines[j])
        /\ \A j \in 1..Len(lines) :
            HasColon(lines[j]) => Stored(creds, Before(lines[j]))
        /\ Len(creds) =
             Cardinality({ Before(lines[j]) : j \in { k \in 1..Len(lines) : HasColon(lines[k]) } })

C5_Witness ==
    /\ rres = "Ok"
    /\ lines = << <<"a", COLON>>, <<"a">>, <<>>, <<COLON>> >>
    /\ creds = << [username |-> <<"a">>, password |-> <<>>],
                  [username |-> <<>>, password |-> <<>>] >>

\* C6: get never panics and returns None exactly when the username is not
\* stored; index panics exactly when get returns None and otherwise returns
\* the password get returns.
C6_LookupMiss ==
    /\ call.name = "get" =>
        /\ pc # "panicked"
        /\ ret.tag \in {"Some", "None"}
        /\ ret.tag = "None" <=> ~Stored(map, call.username)
        /\ ret = Get(map, call.username)
    /\ call.name = "index" =>
        /\ pc = "panicked" <=> Get(map, call.username) = None
        /\ ret.tag = "panic" <=> pc = "panicked"
        /\ pc # "panicked" => ret = Str(Get(map, call.username).val)

C6_Witness ==
    /\ call.name = "index"
    /\ pc = "panicked"
    /\ Len(map) = 2
    /\ ~Stored(map, call.username)

\* C7: when write returns InvalidData, the writer has received exactly the
\* lines of the entries in front of the first entry that breaks the
\* constraint, in order, and nothing else.
C7_PartialOutput ==
    wres = "InvalidData" =>
        /\ ~AllWritable(map)
        /\ out = LinesUpTo(map, FirstBad(map) - 1)

C7_Witness ==
    /\ wres = "InvalidData"
    /\ Len(map) = 2
    /\ map[2].password = <<LF>>
    /\ out = <<CR, COLON, "a", COLON, LF>>

\* C8: the store read returns holds each username once, with the password of
\* the last line that splits to it, and the usernames stand in the order of
\* their first lines.
C8_DuplicateUsernames ==
    rres = "Ok" =>
        /\ Unique(creds)
        /\ \A n \in 1..Len(creds) :
            /\ LinesOf(creds[n].username) # {}
            /\ creds[n].password = After(lines[Highest(LinesOf(creds[n].username))])
        /\ \A n, m \in 1..Len(creds) :
            n < m => Lowest(LinesOf(creds[n].username)) < Lowest(LinesOf(creds[m].username))

C8_Witness ==
    /\ rres = "Ok"
    /\ lines = << <<COLON, "a">>, <<"a", COLON>>, <<COLON>> >>
    /\ creds = << [username |-> <<>>, password |-> <<>>],
                  [username |-> <<"a">>, password |-> <<>>] >>

\* C9: get returns, for every username, the password of the most recent
\* insert for it since the store was created or last cleared, and None when
\* there was none; right after new or clear the store is empty.
C9_LastWriteWins ==
    /\ \A u \in Usernames : Get(map, u) = last[u]
    /\ call.name \in {"new", "clear"} => Len(map) = 0

C9_Witness ==
    /\ call.name = "get"
    /\ call.username = <<LF>>
    /\ ret = Some(<<CR>>)
    /\ last[<<COLON>>] = Some(<<LF>>)

\* C10: no entry of a store read returns has ':' or a newline in its username
\* or a newline in its password, so writing that store never returns
\* InvalidData.
C10_ReadOutputWritable ==
    /\ rres = "Ok" => AllWritable(creds)
    /\ wres # "InvalidData"

C10_Witness ==
    /\ wres = "Ok"
    /\ lines = << <<"a", COLON, COLON>>, <<"a">>, <<COLON>> >>
    /\ Len(map) = 2

====
